---------------------------- MODULE Spec2Model ----------------------------
(***************************************************************************)
(* The state_machine! procedural macro (macro_impl/src/lib.rs), the code   *)
(* it generates, and the float-parser example that uses it                 *)
(* (examples/parse_float.rs).                                              *)
(*                                                                         *)
(* The macro is modelled as a process that validates a parsed              *)
(* StateMachineDefinition block by block, then builds the two wrapper      *)
(* enums and the `next` routine, and emits both.  The emitted routine is   *)
(* kept as data (one arm per StateTransitions, in declaration order) and   *)
(* interpreted by the operator next, with Rust's first-match semantics.    *)
(***************************************************************************)
EXTENDS Integers, Sequences, FiniteSets, TLC

VARIABLES
    input,      \* the token stream `item` the macro is invoked on (lib.rs:251)
    smd,        \* the parsed StateMachineDefinition (lib.rs:252)
    pc,         \* position of state_machine / of the driver
    i,          \* index of the block the validation loop looks at (lib.rs:253)
    panic_msg,  \* <<>> or <<state named by the macro's panic>> (lib.rs:255-258)
    wrappers,   \* <<>> or <<result of define_wrappers>> (lib.rs:262)
    fsm_impl,   \* <<>> or <<result of define_loop>> (lib.rs:263)
    output,     \* <<>> or <<the token stream handed back to the compiler>>
    state,      \* <<>> or <<the machine value the driver holds>>
    call,       \* <<>> or <<record of the last call of the generated next>>
    trace       \* the actions the driver has offered so far

vars == <<input, smd, pc, i, panic_msg, wrappers, fsm_impl, output, state, call, trace>>

-----------------------------------------------------------------------------
(* Bounds of the model *)

\* Largest number of StateTransitions blocks in a generic specification.
MaxBlocks == 3

\* Number of distinct hasher keys a HashSet may be created with.
NumKeys == 2

\* Largest number of calls of next the driver makes in one run.
MaxSteps == 5

\* Largest number of tokens between the braces of a block of arbitrary text.
MaxTokens == 5

-----------------------------------------------------------------------------
(* Rust's Option, as a sequence of length at most one *)

None == <<>>
Some(x) == <<x>>

\* The unit payload of a field-less struct (ParseSign, Dot, Exponential, Eos).
Unit == [unit |-> TRUE]

\* The set of the elements of a sequence.
Range(seq) == {seq[j] : j \in 1..Len(seq)}

\* Index of the first element of seq equal to x, 0 when there is none:
\* the arm a Rust match selects among arms listed in this order.
FirstIndex(seq, x) ==
    IF x \in Range(seq)
    THEN CHOOSE j \in 1..Len(seq) : seq[j] = x /\ \A l \in 1..(j-1) : seq[l] # x
    ELSE 0

-----------------------------------------------------------------------------
(* AST: Transition, StateTransitions, StateMachineDefinition *)

Transition(actions, next_states) ==
    [actions |-> actions, next_states |-> next_states]

StateTransitions(st, transitions) ==
    [state |-> st, transitions |-> transitions]

StateMachineDefinition(state_wrapper, action_wrapper, state_transitions) ==
    [state_wrapper |-> state_wrapper,
     action_wrapper |-> action_wrapper,
     state_transitions |-> state_transitions]

-----------------------------------------------------------------------------
(* Parsing: the impl Parse blocks (lib.rs:30-85) *)

\* The token trees of a proc_macro::TokenStream: identifiers, punctuation and
\* brace-delimited groups.
Ident(text) == [kind |-> "ident", text |-> text, stream |-> <<>>]
Punct(text) == [kind |-> "punct", text |-> text, stream |-> <<>>]
Group(stream) == [kind |-> "group", text |-> "{", stream |-> stream]

\* syn::Result: Ok(value) with the rest of the stream, or the error raised at
\* the first token of rest.
Accepted(value, rest) == [ok |-> TRUE, value |-> value, rest |-> rest]
SyntaxError(rest) == [ok |-> FALSE, value |-> <<>>, rest |-> rest]

\* input.peek(Token![p])
peek(toks, p) == toks # <<>> /\ Head(toks) = Punct(p)

\* input.parse::<Ident>()
parse_Ident(toks) ==
    IF toks # <<>> /\ Head(toks).kind = "ident"
    THEN Accepted(Head(toks).text, Tail(toks))
    ELSE SyntaxError(toks)

\* input.parse::<Token![p]>()
parse_Token(toks, p) ==
    IF peek(toks, p) THEN Accepted(p, Tail(toks)) ELSE SyntaxError(toks)

\* The `?` operator: an error is returned at once, a value goes on to the
\* rest of the function.
try(r, rest_of_fn(_)) == IF r.ok THEN rest_of_fn(r) ELSE r

RECURSIVE parse_separated_maybe_empty(_)
\* A plausible slip: a parser that also accepts a list without any element
\* is used for the alternatives.
parse_separated_maybe_empty(toks) ==
    IF toks = <<>> \/ Head(toks).kind # "ident"
    THEN Accepted(<<>>, toks)
    ELSE try(parse_Ident(toks), LAMBDA v :
             IF ~ peek(v.rest, "|")
             THEN Accepted(<<v.value>>, v.rest)
             ELSE try(parse_separated_maybe_empty(Tail(v.rest)), LAMBDA r :
                      Accepted(<<v.value>> \o r.value, r.rest)))

RECURSIVE parse_separated_nonempty(_)
\* Punctuated::<Ident, Token![|]>::parse_separated_nonempty (lib.rs:49, 53):
\* an identifier, then as long as a `|` follows, the `|` and an identifier.
parse_separated_nonempty(toks) ==
    try(parse_Ident(toks), LAMBDA v :
        IF ~ peek(v.rest, "|")
        THEN Accepted(<<v.value>>, v.rest)
        ELSE try(parse_separated_nonempty(Tail(v.rest)), LAMBDA r :
                 Accepted(<<v.value>> \o r.value, r.rest)))

\* impl Parse for Transition (lib.rs:47-61)
Transition_parse(toks) ==
    try(parse_separated_nonempty(toks), LAMBDA actions :
    try(parse_Token(actions.rest, "=>"), LAMBDA arrow :
    try(parse_separated_nonempty(arrow.rest), LAMBDA next_states :
        Accepted([actions |-> actions.value,
                  next_states |-> next_states.value],
                 next_states.rest))))

RECURSIVE parse_terminated_Transition(_)
\* Punctuated::<Transition, Token![,]>::parse_terminated (lib.rs:35): to the
\* end of the braces, elements separated by `,`, the last `,` optional.
parse_terminated_Transition(toks) ==
    IF toks = <<>>
    THEN Accepted(<<>>, <<>>)
    ELSE try(Transition_parse(toks), LAMBDA v :
             IF v.rest = <<>>
             THEN Accepted(<<v.value>>, <<>>)
             ELSE try(parse_Token(v.rest, ","), LAMBDA p :
                  try(parse_terminated_Transition(p.rest), LAMBDA r :
                      Accepted(<<v.value>> \o r.value, <<>>))))

\* braced!(content in input) (lib.rs:32-33): the stream of the group that
\* comes next.
braced(toks) ==
    IF toks # <<>> /\ Head(toks).kind = "group"
    THEN Accepted(Head(toks).stream, Tail(toks))
    ELSE SyntaxError(toks)

\* impl Parse for StateTransitions (lib.rs:30-40)
StateTransitions_parse(toks) ==
    try(parse_Ident(toks), LAMBDA st :
    try(braced(st.rest), LAMBDA content :
    try(parse_terminated_Transition(content.value), LAMBDA transitions :
        Accepted([state |-> st.value, transitions |-> transitions.value],
                 content.rest))))

RECURSIVE parse_terminated_StateTransitions(_)
\* Punctuated::<StateTransitions, Token![,]>::parse_terminated (lib.rs:75)
parse_terminated_StateTransitions(toks) ==
    IF toks = <<>>
    THEN Accepted(<<>>, <<>>)
    ELSE try(StateTransitions_parse(toks), LAMBDA v :
             IF v.rest = <<>>
             THEN Accepted(<<v.value>>, <<>>)
             ELSE try(parse_Token(v.rest, ","), LAMBDA p :
                  try(parse_terminated_StateTransitions(p.rest), LAMBDA r :
                      Accepted(<<v.value>> \o r.value, <<>>))))

\* impl Parse for StateMachineDefinition (lib.rs:69-85)
StateMachineDefinition_parse(toks) ==
    try(parse_Ident(toks), LAMBDA state_wrapper :
    try(parse_Token(state_wrapper.rest, ","), LAMBDA c1 :
    try(parse_Ident(c1.rest), LAMBDA action_wrapper :
    try(parse_Token(action_wrapper.rest, ","), LAMBDA c2 :
    try(parse_terminated_StateTransitions(c2.rest), LAMBDA sts :
        Accepted([state_wrapper |-> state_wrapper.value,
                  action_wrapper |-> action_wrapper.value,
                  state_transitions |-> sts.value],
                 <<>>))))))

-----------------------------------------------------------------------------
(* Validation: StateTransitions::check_transitions_consistency *)

RECURSIVE number_actions(_)
\* transitions.iter().map(|t| t.actions.len()).sum()
number_actions(transitions) ==
    IF transitions = <<>>
    THEN 0
    ELSE Len(Head(transitions).actions) + number_actions(Tail(transitions))

RECURSIVE flat_map_actions(_)
\* transitions.iter().flat_map(|t| t.actions.iter()): every action occurrence,
\* edge after edge.
flat_map_actions(transitions) ==
    IF transitions = <<>>
    THEN <<>>
    ELSE Head(transitions).actions \o flat_map_actions(Tail(transitions))

\* ... .collect::<HashSet<_>>().len(): identifiers compare by spelling.
number_unique_actions(transitions) ==
    Cardinality(Range(flat_map_actions(transitions)))

\* A plausible slip: the edges are checked one at a time, so that an action
\* repeated in two different edges goes unnoticed.
check_each_transition_alone(st) ==
    \A j \in 1..Len(st.transitions) :
        Len(st.transitions[j].actions)
            = Cardinality(Range(st.transitions[j].actions))

\* A plausible slip: the number of edges is taken for the number of action
\* occurrences, so that a valid edge with two actions is rejected.
check_counts_transitions(st) ==
    Len(st.transitions) = number_unique_actions(st.transitions)

check_transitions_consistency(st) ==
    number_actions(st.transitions) = number_unique_actions(st.transitions)

-----------------------------------------------------------------------------
(* Symbol collection and the wrapper enums: define_wrappers *)

\* The identifiers the model uses, in a fixed order; an identifier's position
\* stands for the bytes of its spelling, which is what a HashSet hashes.
Universe ==
    <<"S", "A", "ParseSign", "ParseDigitsBeforeDot", "Sign", "Digit",
      "ParseDigitsAfterDot", "Dot", "T", "B", "ParseScientificNotationSign",
      "ParseScientificNotation", "Finished", "Exponential", "Eos">>

\* Number of buckets of the modelled hash table: Len(Universe) + 2 = 17 is
\* prime, so that every key orders the identifiers without collision.
HashModulus == Len(Universe) + 2

\* The keys std::collections::HashSet::new() may draw for its hasher.
RandomStates == 1..NumKeys

\* The bucket an identifier lands in under hasher key k.
Hash(k, id) == (k * FirstIndex(Universe, id)) % HashModulus

RECURSIVE IterOrder(_, _)
\* The order in which `for s in set` visits a HashSet built with key k:
\* bucket after bucket.
IterOrder(set, k) ==
    IF set = {}
    THEN <<>>
    ELSE LET first == CHOOSE x \in set : \A y \in set : Hash(k, x) <= Hash(k, y)
         IN  <<first>> \o IterOrder(set \ {first}, k)

RECURSIVE insert_all(_, _)
\* for x in seq { set.insert(x) }
insert_all(set, seq) ==
    IF seq = <<>> THEN set ELSE insert_all(set \cup {Head(seq)}, Tail(seq))

RECURSIVE collect_transitions(_, _)
\* The inner loop of define_wrappers over one block's edges (lib.rs:95-103);
\* acc is the pair [states, actions] of the two HashSets.
collect_transitions(acc, transitions) ==
    IF transitions = <<>>
    THEN acc
    ELSE collect_transitions(
             [states  |-> insert_all(acc.states, Head(transitions).next_states),
              actions |-> insert_all(acc.actions, Head(transitions).actions)],
             Tail(transitions))

\* A plausible slip: the edge targets are never inserted, so that a state
\* without a block of its own gets no variant.
collect_block_ids_only(acc, st) ==
    LET with_state == [acc EXCEPT !.states = @ \cup {st.state}]
        inner == collect_transitions(with_state, st.transitions)
    IN  [with_state EXCEPT !.actions = inner.actions]

\* A plausible slip: the actions are inserted into the state set as well, so
\* that the two namespaces are mixed.
collect_mixing_namespaces(acc, st) ==
    LET with_state == [acc EXCEPT !.states = @ \cup {st.state}]
        inner == collect_transitions(with_state, st.transitions)
    IN  [inner EXCEPT !.states = @ \cup inner.actions]

\* One iteration of the outer loop of define_wrappers (lib.rs:93-104).
collect_block(acc, st) ==
    collect_transitions([acc EXCEPT !.states = @ \cup {st.state}], st.transitions)

RECURSIVE collect_symbols(_, _)
\* The outer loop of define_wrappers (lib.rs:91-104).
collect_symbols(acc, state_transitions) ==
    IF state_transitions = <<>>
    THEN acc
    ELSE collect_symbols(collect_block(acc, Head(state_transitions)),
                         Tail(state_transitions))

\* define_wrappers: the variants of the two enums, in emission order.  ks and
\* ka are the hasher keys of the `states` and of the `actions` HashSet.
define_wrappers(def, ks, ka) ==
    LET sets == collect_symbols([states |-> {}, actions |-> {}],
                                def.state_transitions)
    IN  [state_wrapper  |-> def.state_wrapper,
         action_wrapper |-> def.action_wrapper,
         states  |-> IterOrder(sets.states, ks),
         actions |-> IterOrder(sets.actions, ka)]

-----------------------------------------------------------------------------
(* The generated routine: define_transition and define_loop *)

RECURSIVE lambda_arms_first_target(_, _, _)
\* A plausible slip: the text of the check is taken before the loop over the
\* output states has accumulated more than the first of them.
lambda_arms_first_target(start_state, actions, next_states) ==
    IF actions = <<>>
    THEN <<>>
    ELSE <<[action        |-> Head(actions),
            state_as_str  |-> start_state,
            action_as_str |-> Head(actions),
            assert_acc    |-> next_states,
            assert_as_str |-> <<Head(next_states)>>]>>
         \o lambda_arms_first_target(start_state, Tail(actions), next_states)

RECURSIVE lambda_arms(_, _, _)
\* for a in &t.actions (lib.rs:186-193): one arm of `match &action` per
\* action of the edge, each holding the edge's whole list of output states.
lambda_arms(start_state, actions, next_states) ==
    IF actions = <<>>
    THEN <<>>
    ELSE <<[action        |-> Head(actions),
            state_as_str  |-> start_state,
            action_as_str |-> Head(actions),
            assert_acc    |-> next_states,
            assert_as_str |-> next_states]>>
         \o lambda_arms(start_state, Tail(actions), next_states)

RECURSIVE action_to_lambda_acc(_, _)
\* The first loop of define_transition (lib.rs:171-194).
action_to_lambda_acc(start_state, transitions) ==
    IF transitions = <<>>
    THEN <<>>
    ELSE (IF Head(transitions).next_states = <<>>
          THEN <<>>
          ELSE lambda_arms(start_state, Head(transitions).actions,
                           Head(transitions).next_states))
         \o action_to_lambda_acc(start_state, Tail(transitions))

\* The second loop of define_transition (lib.rs:196-204): one dispatch arm
\* `#action_wrapper::#a(a) => state.next(a)` per action occurrence.
action_dispatch(transitions) == flat_map_actions(transitions)

\* define_transition: the arm `Self::#start_state(state) => { ... }`.
define_transition(st) ==
    [start_state      |-> st.state,
     action_to_lambda |-> action_to_lambda_acc(st.state, st.transitions),
     action_dispatch  |-> action_dispatch(st.transitions)]

RECURSIVE define_loop_acc(_)
\* The loop of define_loop (lib.rs:228-236): the arms, in declaration order.
define_loop_acc(state_transitions) ==
    IF state_transitions = <<>>
    THEN <<>>
    ELSE <<define_transition(Head(state_transitions))>>
         \o define_loop_acc(Tail(state_transitions))

\* define_loop: `impl #state_wrapper { fn next(self, action) -> Result<..> }`.
define_loop(def) ==
    [state_wrapper  |-> def.state_wrapper,
     action_wrapper |-> def.action_wrapper,
     arms           |-> define_loop_acc(def.state_transitions)]

-----------------------------------------------------------------------------
(* Running the generated code: values and the routine `next` *)

\* A value of one of the two enums: the variant and what it wraps.
Variant(kind, payload) == [kind |-> kind, payload |-> payload]

\* Result<#state_wrapper, (#state_wrapper, #action_wrapper)>, or the panic that
\* unwinds out of next.  handlers lists the State::next impls that ran, as
\* <<state kind, action kind>> pairs.
Ok(s, handlers) ==
    [tag |-> "Ok", state |-> Some(s), action |-> None,
     handlers |-> handlers, panic |-> None]

Err(s, a) ==
    [tag |-> "Err", state |-> Some(s), action |-> Some(a),
     handlers |-> <<>>, panic |-> None]

Panicked(msg, handlers) ==
    [tag |-> "Panic", state |-> None, action |-> None,
     handlers |-> handlers, panic |-> Some(msg)]

\* The arm of `match self` that is taken: the first whose pattern
\* Self::#start_state(state) matches, 0 for the catch-all terminal_state.
select_arm(arms, self) ==
    FirstIndex([j \in 1..Len(arms) |-> arms[j].start_state], self.kind)

\* `match &action { #action_to_lambda_acc _ => |_| () }` (lib.rs:208-212):
\* the index of the checking closure, 0 for the closure that checks nothing.
select_lambda(arm, action) ==
    FirstIndex([j \in 1..Len(arm.action_to_lambda) |->
                   arm.action_to_lambda[j].action], action.kind)

\* `match action { #action_dispatch _ => return Err(..) }` (lib.rs:214-217):
\* the index of the dispatch arm, 0 for the catch-all.
select_dispatch(arm, action) ==
    FirstIndex(arm.action_dispatch, action.kind)

\* The closure of lib.rs:191 applied to the handler's result n:
\* !(matches!(n, &Self::X(_)) || ... || false)
assert_fails(lambda, n) ==
    ~ (\E j \in 1..Len(lambda.assert_acc) : n.kind = lambda.assert_acc[j])

\* The arguments of the panic! of lib.rs:191.
panic_args(lambda, n) ==
    [state_as_str  |-> lambda.state_as_str,
     action_as_str |-> lambda.action_as_str,
     n             |-> n,
     assert_as_str |-> lambda.assert_as_str]

\* A plausible slip: the unlisted action is swallowed and the state handed
\* back as a success.
unlisted_action_swallowed(self, action) == Ok(self, <<>>)

\* `_ => return Err((Self::#start_state(state), action))` (lib.rs:216).
unlisted_action(self, action) == Err(self, action)

\* A plausible slip: the catch-all arm is generated as unreachable!(), so
\* that a call in a state without a block panics.
terminal_arm_unreachable(self, action) ==
    Panicked([state_as_str  |-> self.kind,
              action_as_str |-> action.kind,
              n             |-> self,
              assert_as_str |-> <<>>], <<>>)

\* `terminal_state => terminal_state`, inside the Ok(..) of lib.rs:241-244.
terminal_arm(self, action) == Ok(self, <<>>)

\* The body of one arm (lib.rs:207-220).  n is what the host's
\* State<W, A>::next impl for (self, action) returns when it is called.
run_arm(arm, self, action, n) ==
    LET l == select_lambda(arm, action)
        d == select_dispatch(arm, action)
        ran == << <<self.kind, action.kind>> >>
    IN  IF d = 0
        THEN unlisted_action(self, action)
        ELSE IF l # 0 /\ assert_fails(arm.action_to_lambda[l], n)
             THEN Panicked(panic_args(arm.action_to_lambda[l], n), ran)
             ELSE Ok(n, ran)

\* The generated `fn next(self, action)` (lib.rs:240-245).
next(impl, self, action, n) ==
    LET k == select_arm(impl.arms, self)
    IN  IF k = 0
        THEN terminal_arm(self, action)
        ELSE run_arm(impl.arms[k], self, action, n)

-----------------------------------------------------------------------------
(* The example: examples/parse_float.rs *)

\* state_machine! { FloatParser, Char, ... } (parse_float.rs:40-63)
FloatParserDefinition ==
    StateMachineDefinition("FloatParser", "Char", <<
        StateTransitions("ParseSign", <<
            Transition(<<"Sign", "Digit">>, <<"ParseDigitsBeforeDot">>) >>),
        StateTransitions("ParseDigitsBeforeDot", <<
            Transition(<<"Digit">>, <<"ParseDigitsBeforeDot">>),
            Transition(<<"Dot", "Exponential">>, <<"ParseDigitsAfterDot">>),
            Transition(<<"Eos">>, <<"Finished">>) >>),
        StateTransitions("ParseDigitsAfterDot", <<
            Transition(<<"Digit", "Exponential">>, <<"ParseDigitsAfterDot">>),
            Transition(<<"Eos">>, <<"Finished">>) >>),
        StateTransitions("ParseScientificNotationSign", <<
            Transition(<<"Sign">>, <<"ParseScientificNotation">>) >>),
        StateTransitions("ParseScientificNotation", <<
            Transition(<<"Digit">>, <<"ParseScientificNotation">>),
            Transition(<<"Eos">>, <<"Finished">>) >>) >>)

\* #[derive(Default)] struct ParseState (parse_float.rs:3-10)
ParseState_default ==
    [is_positive          |-> FALSE,
     digits_before        |-> <<>>,
     digits_after         |-> <<>>,
     is_exponent_positive |-> FALSE,
     digits_exponent      |-> <<>>]

\* impl State<FloatParser, Sign> for ParseSign (parse_float.rs:65-75)
ParseSign_next_Sign(self, action) ==
    Variant("ParseDigitsBeforeDot",
            [ParseState_default EXCEPT
                !.is_positive = (action = "Plus"),
                !.is_exponent_positive = TRUE])

\* impl State<FloatParser, Digit> for ParseSign (parse_float.rs:77-87)
ParseSign_next_Digit(self, action) ==
    Variant("ParseDigitsBeforeDot",
            [ParseState_default EXCEPT
                !.is_positive = TRUE,
                !.is_exponent_positive = TRUE,
                !.digits_before = <<action>>])

\* impl State<FloatParser, Dot> for ParseDigitsBeforeDot (parse_float.rs:89-93)
ParseDigitsBeforeDot_next_Dot(self, action) ==
    Variant("ParseDigitsAfterDot", self)

\* impl State<FloatParser, Exponential> for ParseDigitsBeforeDot
\* (parse_float.rs:95-99)
ParseDigitsBeforeDot_next_Exponential(self, action) ==
    Variant("ParseScientificNotation", self)

\* impl State<FloatParser, Digit> for ParseDigitsBeforeDot
\* (parse_float.rs:101-106)
ParseDigitsBeforeDot_next_Digit(self, action) ==
    Variant("ParseDigitsBeforeDot",
            [self EXCEPT !.digits_before = Append(@, action)])

\* impl State<FloatParser, Exponential> for ParseDigitsAfterDot
\* (parse_float.rs:108-112)
ParseDigitsAfterDot_next_Exponential(self, action) ==
    Variant("ParseScientificNotationSign", self)

\* A plausible slip: the digit after the dot is pushed onto digits_before.
ParseDigitsAfterDot_pushes_before(self, action) ==
    Variant("ParseDigitsAfterDot",
            [self EXCEPT !.digits_before = Append(@, action)])

\* impl State<FloatParser, Digit> for ParseDigitsAfterDot
\* (parse_float.rs:114-119)
ParseDigitsAfterDot_next_Digit(self, action) ==
    Variant("ParseDigitsAfterDot",
            [self EXCEPT !.digits_after = Append(@, action)])

\* impl State<FloatParser, Digit> for ParseScientificNotation
\* (parse_float.rs:121-126)
ParseScientificNotation_next_Digit(self, action) ==
    Variant("ParseScientificNotation",
            [self EXCEPT !.digits_exponent = Append(@, action)])

\* impl State<FloatParser, Eos> for ParseScientificNotation
\* (parse_float.rs:128-132)
ParseScientificNotation_next_Eos(self, action) ==
    Variant("Finished", self)

\* impl State<FloatParser, Eos> for ParseDigitsBeforeDot (parse_float.rs:134-138)
ParseDigitsBeforeDot_next_Eos(self, action) ==
    Variant("Finished", self)

\* impl State<FloatParser, Eos> for ParseDigitsAfterDot (parse_float.rs:140-144)
ParseDigitsAfterDot_next_Eos(self, action) ==
    Variant("Finished", self)

\* impl State<FloatParser, Sign> for ParseScientificNotationSign
\* (parse_float.rs:146-151)
ParseScientificNotationSign_next_Sign(self, action) ==
    Variant("ParseScientificNotation",
            [self EXCEPT !.is_exponent_positive = (action = "Plus")])

\* Trait resolution of `state.next(a)` in the example: the impl for the pair
\* (type of state, type of a).  The generated code names no other pair.
State_next(self, action) ==
    LET pair == <<self.kind, action.kind>>
        s == self.payload
        a == action.payload
    IN  CASE pair = <<"ParseSign", "Sign">> -> ParseSign_next_Sign(s, a)
          [] pair = <<"ParseSign", "Digit">> -> ParseSign_next_Digit(s, a)
          [] pair = <<"ParseDigitsBeforeDot", "Dot">> ->
                 ParseDigitsBeforeDot_next_Dot(s, a)
          [] pair = <<"ParseDigitsBeforeDot", "Exponential">> ->
                 ParseDigitsBeforeDot_next_Exponential(s, a)
          [] pair = <<"ParseDigitsBeforeDot", "Digit">> ->
                 ParseDigitsBeforeDot_next_Digit(s, a)
          [] pair = <<"ParseDigitsBeforeDot", "Eos">> ->
                 ParseDigitsBeforeDot_next_Eos(s, a)
          [] pair = <<"ParseDigitsAfterDot", "Exponential">> ->
                 ParseDigitsAfterDot_next_Exponential(s, a)
          [] pair = <<"ParseDigitsAfterDot", "Digit">> ->
                 ParseDigitsAfterDot_next_Digit(s, a)
          [] pair = <<"ParseDigitsAfterDot", "Eos">> ->
                 ParseDigitsAfterDot_next_Eos(s, a)
          [] pair = <<"ParseScientificNotationSign", "Sign">> ->
                 ParseScientificNotationSign_next_Sign(s, a)
          [] pair = <<"ParseScientificNotation", "Digit">> ->
                 ParseScientificNotation_next_Digit(s, a)
          [] pair = <<"ParseScientificNotation", "Eos">> ->
                 ParseScientificNotation_next_Eos(s, a)
          [] OTHER -> self

\* The digits the driver feeds: `c as u8 - b'0'` for some of '0'..='9'.
DigitValues == {1, 3, 4}

\* The Char values main builds from the input (parse_float.rs:183-190) and
\* the Eos it sends at the end (parse_float.rs:201).
Chars ==
    {Variant("Sign", "Plus"), Variant("Sign", "Minus"),
     Variant("Exponential", Unit), Variant("Dot", Unit), Variant("Eos", Unit)}
    \cup {Variant("Digit", d) : d \in DigitValues}

-----------------------------------------------------------------------------
(* The specifications the macro is run on *)

\* Blocks a specification is assembled from.  Between them: an edge target
\* without a block of its own, several actions and several targets in one
\* edge, an action in two edges of a block, an action twice in one edge, a
\* block without edges, an identifier that is a state and an action, and two
\* blocks for one state.
BlockPool ==
    { StateTransitions("S", << Transition(<<"A">>, <<"T">>) >>),
      StateTransitions("S", << Transition(<<"A">>, <<"S">>),
                               Transition(<<"B">>, <<"S", "T">>) >>),
      StateTransitions("T", << Transition(<<"A", "B">>, <<"S">>) >>),
      StateTransitions("S", << Transition(<<"A">>, <<"T">>),
                               Transition(<<"B">>, <<"S">>),
                               Transition(<<"A">>, <<"S">>) >>),
      StateTransitions("T", << Transition(<<"A", "A">>, <<"S">>) >>),
      StateTransitions("T", << >>),
      StateTransitions("A", << Transition(<<"A">>, <<"A", "S">>) >>) }

\* Every sequence of at most MaxBlocks blocks of the pool.
Definitions ==
    { StateMachineDefinition("Machine", "Input", blocks) :
        blocks \in UNION { [1..n -> BlockPool] : n \in 0..MaxBlocks } }

\* What a variant of the generic machines wraps.
Payloads == {0, 1}

-----------------------------------------------------------------------------
(* state_machine (lib.rs:250-271) *)

\* A plausible slip: the loop stops one block early, so that the last block
\* is never validated.
validation_stops_early(idx, def) == idx >= Len(def.state_transitions)

\* `for st in &smd.state_transitions` (lib.rs:253) has no block left.
validation_done(idx, def) == idx > Len(def.state_transitions)

\* The text of an alternative list: its identifiers separated by `|`.
alternatives_tokens(ids) ==
    [k \in 1..(2 * Len(ids) - 1) |->
        IF k % 2 = 1 THEN Ident(ids[(k + 1) \div 2]) ELSE Punct("|")]

\* The text of an edge: `actions => next_states`.
Transition_tokens(t) ==
    alternatives_tokens(t.actions) \o <<Punct("=>")>>
        \o alternatives_tokens(t.next_states)

RECURSIVE transitions_tokens(_)
\* The text between the braces of a block: its edges separated by `,`.
transitions_tokens(ts) ==
    IF ts = <<>>
    THEN <<>>
    ELSE IF Len(ts) = 1
         THEN Transition_tokens(ts[1])
         ELSE Transition_tokens(ts[1]) \o <<Punct(",")>>
                  \o transitions_tokens(Tail(ts))

RECURSIVE blocks_tokens(_)
\* The text of the blocks, each followed by `,` as in the example.
blocks_tokens(sts) ==
    IF sts = <<>>
    THEN <<>>
    ELSE <<Ident(sts[1].state), Group(transitions_tokens(sts[1].transitions)),
           Punct(",")>> \o blocks_tokens(Tail(sts))

\* The text of a whole invocation: `StateEnum, ActionEnum, blocks`.
definition_tokens(def) ==
    <<Ident(def.state_wrapper), Punct(","), Ident(def.action_wrapper),
      Punct(",")>> \o blocks_tokens(def.state_transitions)

\* The tokens arbitrary text between the braces of a block is made of.
BodyTokens == {Ident("A"), Ident("S"), Punct("|"), Punct("=>"), Punct(",")}

\* An invocation with one block, for state S, holding at most MaxTokens
\* tokens of any text.
Texts ==
    { <<Ident("Machine"), Punct(","), Ident("Input"), Punct(","),
        Ident("S"), Group(body)>> :
        body \in UNION { [1..n -> BodyTokens] : n \in 0..MaxTokens } }

\* No definition is bound before parse_macro_input! has returned.
NoDefinition == StateMachineDefinition("", "", <<>>)

\* The state of state_machine when it is invoked on the tokens item.
Invoked(item) ==
    /\ input = item
    /\ smd = NoDefinition
    /\ pc = "parse"
    /\ i = 1
    /\ panic_msg = None
    /\ wrappers = None
    /\ fsm_impl = None
    /\ output = None
    /\ state = None
    /\ call = None
    /\ trace = <<>>

Init == \E def \in Definitions : Invoked(definition_tokens(def))

InitFloat == Invoked(definition_tokens(FloatParserDefinition))

InitParse == \E item \in Texts : Invoked(item)

\* let smd = parse_macro_input!(item as StateMachineDefinition) (lib.rs:252):
\* on a syntax error the macro returns the compile error and nothing else.
Parse ==
    /\ pc = "parse"
    /\ LET r == StateMachineDefinition_parse(input)
       IN  IF r.ok
           THEN /\ smd' = r.value
                /\ pc' = "validate"
           ELSE /\ pc' = "syntax_error"
                /\ UNCHANGED smd
    /\ UNCHANGED <<input, i, panic_msg, wrappers, fsm_impl, output, state, call, trace>>

\* One iteration of the validation loop (lib.rs:253-260).
CheckBlock ==
    /\ pc = "validate"
    /\ ~ validation_done(i, smd)
    /\ IF check_transitions_consistency(smd.state_transitions[i])
       THEN /\ i' = i + 1
            /\ UNCHANGED <<pc, panic_msg>>
       ELSE /\ pc' = "panicked"
            /\ panic_msg' = Some(smd.state_transitions[i].state)
            /\ UNCHANGED i
    /\ UNCHANGED <<input, smd, wrappers, fsm_impl, output, state, call, trace>>

\* let wrappers = define_wrappers(&smd) (lib.rs:262).  The two HashSets are
\* created one after the other and draw consecutive hasher keys.
DefineWrappers ==
    /\ pc = "validate"
    /\ validation_done(i, smd)
    /\ \E k \in RandomStates : wrappers' = Some(define_wrappers(smd, k, k + 1))
    /\ pc' = "define_loop"
    /\ UNCHANGED <<input, smd, i, panic_msg, fsm_impl, output, state, call, trace>>

\* let fsm_impl = define_loop(&smd) (lib.rs:263).
DefineLoop ==
    /\ pc = "define_loop"
    /\ fsm_impl' = Some(define_loop(smd))
    /\ pc' = "quote"
    /\ UNCHANGED <<input, smd, i, panic_msg, wrappers, output, state, call, trace>>

\* quote! { #wrappers #fsm_impl }.into() (lib.rs:265-270).
Quote ==
    /\ pc = "quote"
    /\ output' = Some([wrappers |-> wrappers[1], fsm_impl |-> fsm_impl[1]])
    /\ pc' = "expanded"
    /\ UNCHANGED <<input, smd, i, panic_msg, wrappers, fsm_impl, state, call, trace>>

-----------------------------------------------------------------------------
(* A driver of a generated machine *)

\* The values of the generated state enum / action enum.
StateValues(out, payloads) ==
    {Variant(k, p) : k \in Range(out.wrappers.states), p \in payloads}

ActionValues(out, payloads) ==
    {Variant(k, p) : k \in Range(out.wrappers.actions), p \in payloads}

\* What the driver does with the outcome of a call: it goes on with the state
\* it got back, from Ok or from Err; a panic ends the program.  The record of
\* the call keeps what the handler returned, when one ran.
Outcome(self, action, n, res) ==
    /\ call' = Some([self |-> self, action |-> action, res |-> res,
                     n |-> IF res.handlers = <<>> THEN None ELSE Some(n)])
    /\ state' = res.state

\* The caller constructs an initial state of any variant (From impls,
\* lib.rs:117-121).
Construct ==
    /\ pc = "expanded"
    /\ \E s \in StateValues(output[1], Payloads) : state' = Some(s)
    /\ pc' = "driving"
    /\ UNCHANGED <<input, smd, i, panic_msg, wrappers, fsm_impl, output, call, trace>>

\* One call of next.  The host's handler for the pair may return any value of
\* the state enum.
Advance ==
    /\ pc = "driving"
    /\ \E a \in ActionValues(output[1], Payloads),
          n \in StateValues(output[1], Payloads) :
          LET res == next(output[1].fsm_impl, state[1], a, n)
          IN  /\ Outcome(state[1], a, n, res)
              /\ pc' = IF res.tag = "Panic" THEN "aborted" ELSE "driving"
    /\ UNCHANGED <<input, smd, i, panic_msg, wrappers, fsm_impl, output, trace>>

-----------------------------------------------------------------------------
(* main of the example (parse_float.rs:179-219), for any input *)

\* let mut state = FloatParser::from(ParseSign) (parse_float.rs:181).
MainConstruct ==
    /\ pc = "expanded"
    /\ state' = Some(Variant("ParseSign", Unit))
    /\ pc' = "driving"
    /\ UNCHANGED <<input, smd, i, panic_msg, wrappers, fsm_impl, output, call, trace>>

\* state = match state.next(a) { Err(..) => panic!(..), Ok(s) => s }
\* (parse_float.rs:192-198 and 201-207).
MainStep ==
    /\ pc = "driving"
    /\ Len(trace) < MaxSteps
    /\ \E a \in Chars :
          LET n == State_next(state[1], a)
              res == next(output[1].fsm_impl, state[1], a, n)
          IN  /\ Outcome(state[1], a, n, res)
              /\ trace' = Append(trace, a)
              /\ pc' = IF res.tag = "Ok" THEN "driving" ELSE "aborted"
    /\ UNCHANGED <<input, smd, i, panic_msg, wrappers, fsm_impl, output>>

-----------------------------------------------------------------------------
(* The specifications *)

Next == Parse \/ CheckBlock \/ DefineWrappers \/ DefineLoop \/ Quote
            \/ Construct \/ Advance

NextFloat == Parse \/ CheckBlock \/ DefineWrappers \/ DefineLoop \/ Quote
                 \/ MainConstruct \/ MainStep

\* The macro alone, on arbitrary text.
NextParse == Parse \/ CheckBlock \/ DefineWrappers \/ DefineLoop \/ Quote

Spec == Init /\ [][Next]_vars

SpecFloat == InitFloat /\ [][NextFloat]_vars

SpecParse == InitParse /\ [][NextParse]_vars

-----------------------------------------------------------------------------
(* Vocabulary of the properties, read off the specification alone *)

\* The blocks of a definition.
Blocks(def) == def.state_transitions

\* The state has a StateBlock of its own.
HasBlock(def, kind) ==
    \E b \in 1..Len(Blocks(def)) : Blocks(def)[b].state = kind

\* Every occurrence of an action in an edge: block b, edge e, position p.
Occurrences(def) ==
    UNION { UNION { { <<b, e, p>> :
                        p \in 1..Len(Blocks(def)[b].transitions[e].actions) } :
                    e \in 1..Len(Blocks(def)[b].transitions) } :
            b \in 1..Len(Blocks(def)) }

OccState(def, o) == Blocks(def)[o[1]].state
OccAction(def, o) == Blocks(def)[o[1]].transitions[o[2]].actions[o[3]]
OccTargets(def, o) == Range(Blocks(def)[o[1]].transitions[o[2]].next_states)

\* The actions some edge of some block of the state lists.
ActionsDeclaredFor(def, kind) ==
    { OccAction(def, o) : o \in {x \in Occurrences(def) : OccState(def, x) = kind} }

\* Block ids and edge targets; edge actions.
SpecStates(def) ==
    {OccState(def, o) : o \in Occurrences(def)}
    \cup {Blocks(def)[b].state : b \in 1..Len(Blocks(def))}
    \cup UNION {OccTargets(def, o) : o \in Occurrences(def)}

SpecActions(def) == {OccAction(def, o) : o \in Occurrences(def)}

\* The block lists one action in two of its edges.
RepeatsAcrossEdges(st) ==
    \E e1, e2 \in 1..Len(st.transitions) :
        /\ e1 # e2
        /\ Range(st.transitions[e1].actions)
               \cap Range(st.transitions[e2].actions) # {}

\* The block lists one action twice, in two edges or in one.
RepeatsAction(st) ==
    \/ RepeatsAcrossEdges(st)
    \/ \E e \in 1..Len(st.transitions) :
           Len(st.transitions[e].actions)
               # Cardinality(Range(st.transitions[e].actions))

\* No generation step has produced anything.
NothingGenerated == wrappers = None /\ fsm_impl = None /\ output = None

-----------------------------------------------------------------------------
(* Properties *)

\* C1: a state kind without a StateBlock of its own rejects every action:
\* next returns Err((state, action)) with both values unchanged.
C1_TerminalStateRejects ==
    call # None =>
        (~ HasBlock(smd, call[1].self.kind) =>
            call[1].res = Err(call[1].self, call[1].action))

\* C2: for every declared edge (S, A, T), a call in S with A whose handler
\* returns a state of a kind in T yields Ok of exactly that state, and one
\* whose handler returns a state of another kind panics.
C2_EveryDeclaredEdgeGoverns ==
    call # None =>
        \A o \in Occurrences(smd) :
            ( /\ OccState(smd, o) = call[1].self.kind
              /\ OccAction(smd, o) = call[1].action.kind
              /\ call[1].res.handlers # <<>> )
            => IF call[1].n[1].kind \in OccTargets(smd, o)
               THEN call[1].res.tag = "Ok" /\ call[1].res.state = call[1].n
               ELSE call[1].res.tag = "Panic"

\* C3: in a state that has a StateBlock, an action that no edge declared for
\* that state lists is rejected: next returns Err((state, action)) with both
\* values unchanged, no handler runs and nothing panics.
C3_UnlistedActionRejected ==
    call # None =>
        ( ( /\ HasBlock(smd, call[1].self.kind)
            /\ call[1].action.kind \notin ActionsDeclaredFor(smd, call[1].self.kind) )
          => /\ call[1].res = Err(call[1].self, call[1].action)
             /\ call[1].res.handlers = <<>>
             /\ call[1].res.panic = None
             /\ state = Some(call[1].self)
             /\ pc = "driving" )

\* C3 witness: a call with an unlisted action in a state that has a block
\* with edges has been made, and came back as Err.
C3_Witness ==
    /\ call # None
    /\ HasBlock(smd, call[1].self.kind)
    /\ ActionsDeclaredFor(smd, call[1].self.kind) # {}
    /\ call[1].action.kind \notin ActionsDeclaredFor(smd, call[1].self.kind)
    /\ call[1].res.tag = "Err"

\* C4: a specification in which some block lists one action in two of its
\* edges never gets past validation, wherever that block stands: the loop does
\* not step over it and nothing is generated.  The panic names the first block
\* that repeats an action, which is that block when the other blocks are valid.
C4_DuplicateActionRejected ==
    \A b \in 1..Len(Blocks(smd)) :
        RepeatsAcrossEdges(Blocks(smd)[b]) =>
            /\ pc \in {"validate", "panicked"}
            /\ i <= b
            /\ NothingGenerated
            /\ pc = "panicked" =>
                   /\ panic_msg = Some(Blocks(smd)[i].state)
                   /\ RepeatsAction(Blocks(smd)[i])
                   /\ \A l \in 1..(i-1) : ~ RepeatsAction(Blocks(smd)[l])
                   /\ (\A l \in 1..Len(Blocks(smd)) :
                           l # b => ~ RepeatsAction(Blocks(smd)[l]))
                          => i = b /\ panic_msg = Some(Blocks(smd)[b].state)

\* C4 witness: the macro has panicked on a block that lists an action in two
\* edges and stands last, after two valid blocks.
C4_Witness ==
    /\ pc = "panicked"
    /\ Len(Blocks(smd)) = 3
    /\ i = 3
    /\ RepeatsAcrossEdges(Blocks(smd)[3])
    /\ ~ RepeatsAction(Blocks(smd)[1])
    /\ ~ RepeatsAction(Blocks(smd)[2])
    /\ panic_msg = Some(Blocks(smd)[3].state)

\* C5: in an accepted specification every (source state, action) pair is
\* declared by at most one edge of the whole specification.
C5_PairDeclaredOnce ==
    output # None =>
        \A o1, o2 \in Occurrences(smd) :
            ( /\ OccState(smd, o1) = OccState(smd, o2)
              /\ OccAction(smd, o1) = OccAction(smd, o2) )
            => o1 = o2

\* C6: the generated state variants are exactly the block ids and edge
\* targets, the generated action variants exactly the edge actions, and no
\* variant is emitted twice.
C6_VariantSetsAreTheUnions ==
    wrappers # None =>
        /\ Range(wrappers[1].states) = SpecStates(smd)
        /\ Range(wrappers[1].actions) = SpecActions(smd)
        /\ Len(wrappers[1].states) = Cardinality(SpecStates(smd))
        /\ Len(wrappers[1].actions) = Cardinality(SpecActions(smd))

\* C6 witness: the enums have been built for a specification with a state
\* that is only an edge target, and whose identifiers occur several times.
C6_Witness ==
    /\ wrappers # None
    /\ Len(Blocks(smd)) = 3
    /\ \E k \in SpecStates(smd) : ~ HasBlock(smd, k)
    /\ Cardinality(SpecActions(smd)) = 2
    /\ Cardinality(Occurrences(smd)) > 2

\* The scenario of C7: "3.14" and the end of the input.
Scenario ==
    << Variant("Digit", 3), Variant("Dot", Unit), Variant("Digit", 1),
       Variant("Digit", 4), Variant("Eos", Unit) >>

\* C7: driven from the initial ParseSign state with Digit(3), Dot, Digit(1),
\* Digit(4), Eos, the float machine answers Ok at every step and ends in
\* Finished with digits_before = [3] and digits_after = [1, 4].
C7_EndToEnd ==
    \A k \in 1..Len(Scenario) :
        trace = SubSeq(Scenario, 1, k) =>
            /\ call # None
            /\ call[1].res.tag = "Ok"
            /\ pc = "driving"
            /\ state = call[1].res.state
            /\ k = Len(Scenario) =>
                   /\ state[1].kind = "Finished"
                   /\ state[1].payload.digits_before = <<3>>
                   /\ state[1].payload.digits_after = <<1, 4>>

\* C7 witness: the whole scenario has been driven and the machine holds
\* Finished.
C7_Witness ==
    /\ trace = Scenario
    /\ state # None
    /\ state[1].kind = "Finished"

\* C8: the order in which the variants are emitted is the same whichever
\* hasher keys the HashSets of define_wrappers were created with.
C8_EmissionOrderIndependentOfHasher ==
    wrappers # None =>
        \A k \in RandomStates : wrappers[1] = define_wrappers(smd, k, k + 1)

\* C9: in an accepted specification no identifier is a state and an action:
\* the generated state names and action names are disjoint.
C9_NamespacesDisjoint ==
    output # None =>
        Range(output[1].wrappers.states)
            \cap Range(output[1].wrappers.actions) = {}

\* C9, amended: the macro accepts a specification that uses an identifier as
\* a state and as an action, and the generated state names and action names
\* share exactly the identifiers the specification uses in both roles.
C9_NamespacesOverlapAsDeclared ==
    output # None =>
        Range(output[1].wrappers.states) \cap Range(output[1].wrappers.actions)
            = SpecStates(smd) \cap SpecActions(smd)

\* C9 witness: code has been emitted for a specification in which an
\* identifier is a block id, an edge target and an action, next to a state
\* and an action that are only that.
C9_Witness ==
    /\ output # None
    /\ \E x \in SpecActions(smd) : HasBlock(smd, x)
    /\ SpecStates(smd) \ SpecActions(smd) # {}
    /\ SpecActions(smd) \ SpecStates(smd) # {}

\* C10: when any block fails validation, wherever it stands, nothing is
\* generated and nothing is emitted; a generation step only starts once the
\* loop has been over every block.
C10_NoPartialArtifact ==
    /\ (\E b \in 1..Len(Blocks(smd)) :
            ~ check_transitions_consistency(Blocks(smd)[b]))
           => NothingGenerated /\ pc \in {"validate", "panicked"}
    /\ pc = "panicked" => NothingGenerated
    /\ ~ NothingGenerated => i = Len(Blocks(smd)) + 1

\* C10 witness: validation has failed on the last of three blocks, and
\* nothing has been generated.
C10_Witness ==
    /\ pc = "panicked"
    /\ Len(Blocks(smd)) = 3
    /\ i = 3
    /\ NothingGenerated

\* C12: every identifier the generated routine refers to is a generated
\* variant: the state of every arm and every state named in a post-condition
\* check is a state variant, the action of every dispatch arm and of every
\* checking closure is an action variant.
C12_VariantSetsClosed ==
    output # None =>
        \A j \in 1..Len(output[1].fsm_impl.arms) :
            LET arm == output[1].fsm_impl.arms[j]
            IN  /\ arm.start_state \in Range(output[1].wrappers.states)
                /\ Range(arm.action_dispatch) \subseteq Range(output[1].wrappers.actions)
                /\ \A l \in 1..Len(arm.action_to_lambda) :
                       /\ arm.action_to_lambda[l].action
                              \in Range(output[1].wrappers.actions)
                       /\ Range(arm.action_to_lambda[l].assert_acc)
                              \subseteq Range(output[1].wrappers.states)

\* C12 witness: code has been emitted whose post-condition checks name a
\* state that has no arm of its own.
C12_Witness ==
    /\ output # None
    /\ \E j \in 1..Len(output[1].fsm_impl.arms) :
           \E l \in 1..Len(output[1].fsm_impl.arms[j].action_to_lambda) :
               \E t \in Range(output[1].fsm_impl.arms[j].action_to_lambda[l].assert_acc) :
                   ~ HasBlock(smd, t)

\* C13: the validator rejects a block only if some action is declared in two
\* different edges of that block.
C13_RejectedOnlyForTwoEdges ==
    pc = "panicked" => RepeatsAcrossEdges(Blocks(smd)[i])

\* The number of dispatch arms the block would get for action a.
DispatchArmsFor(st, a) ==
    Cardinality({ j \in 1..Len(flat_map_actions(st.transitions)) :
                      flat_map_actions(st.transitions)[j] = a })

\* C13, amended: the validator rejects a block only if some action occurs
\* twice among the action lists of its edges, in two different edges or twice
\* in the list of one edge; every rejection corresponds to one action that
\* would get two dispatch arms.
C13_RejectedOnlyForRepeatedAction ==
    pc = "panicked" =>
        /\ RepeatsAction(Blocks(smd)[i])
        /\ \E a \in SpecActions(smd) : DispatchArmsFor(Blocks(smd)[i], a) >= 2

\* C13 witness: the macro has panicked on a block whose only edge lists one
\* action twice.
C13_Witness ==
    /\ pc = "panicked"
    /\ Len(Blocks(smd)[i].transitions) = 1
    /\ RepeatsAction(Blocks(smd)[i])

\* C14: in one call of next the handler of the pair (kind of the state, kind
\* of the action) runs exactly once when an edge declared for the state lists
\* the action, and no handler runs otherwise; the post-condition check comes
\* after the handler and before the result: an Ok that follows a handler
\* carries a state the check accepts, and a panic follows a handler.
C14_DeclaredActionRunsItsHandlerOnce ==
    call # None =>
        /\ IF call[1].action.kind \in ActionsDeclaredFor(smd, call[1].self.kind)
           THEN call[1].res.handlers
                    = << <<call[1].self.kind, call[1].action.kind>> >>
           ELSE call[1].res.handlers = <<>>
        /\ (call[1].res.tag = "Ok" /\ call[1].res.handlers # <<>>) =>
               \E o \in Occurrences(smd) :
                   /\ OccState(smd, o) = call[1].self.kind
                   /\ OccAction(smd, o) = call[1].action.kind
                   /\ call[1].res.state[1].kind \in OccTargets(smd, o)
        /\ call[1].res.tag = "Panic" => call[1].res.handlers # <<>>

\* C15: a state whose block has no edges rejects every action with
\* Err((state, action)), both values unchanged, which is also the outcome of a
\* call in a state that has no block.
C15_EmptyBlockRejectsLikeTerminal ==
    call # None =>
        ( ( /\ HasBlock(smd, call[1].self.kind)
            /\ ActionsDeclaredFor(smd, call[1].self.kind) = {} )
          => /\ call[1].res = Err(call[1].self, call[1].action)
             /\ call[1].res = terminal_arm(call[1].self, call[1].action) )

\* C16: once the driver holds a state that has no block, every further call
\* of next leaves it with the same state, kind and payload, and runs no
\* handler.
C16_TerminalStateAbsorbs ==
    [][ ( /\ pc = "driving"
          /\ state # None
          /\ ~ HasBlock(smd, state[1].kind) )
        => /\ state' = state
           /\ pc' = "driving"
           /\ call' # None
           /\ call'[1].self = state[1]
           /\ call'[1].res.handlers = <<>> ]_vars

\* C16 witness: a call has been made in a state that has no block, in a
\* machine that has blocks and handlers.
C16_Witness ==
    /\ call # None
    /\ ~ HasBlock(smd, call[1].self.kind)
    /\ Len(Blocks(smd)) > 0
    /\ state = Some(call[1].self)

\* C17: in the example no sequence of actions driven from ParseSign makes
\* the generated post-condition check panic.
C17_NoContractViolation ==
    call # None => call[1].res.tag # "Panic"

\* The edge that governs a call: the first block of the state, and in it the
\* first edge that lists the action.
GoverningEdges(def, self, action) ==
    { o \in Occurrences(def) :
        /\ OccState(def, o) = self.kind
        /\ OccAction(def, o) = action.kind
        /\ \A b \in 1..(o[1] - 1) : Blocks(def)[b].state # self.kind
        /\ \A x \in Occurrences(def) :
               (x[1] = o[1] /\ OccAction(def, x) = action.kind)
                   => (x[2] > o[2] \/ (x[2] = o[2] /\ x[3] >= o[3])) }

\* C18: the report of a contract violation holds the name of the source
\* state, the name of the action, the state the handler returned, and the
\* names of all the targets of the edge whose check failed.
C18_PanicReport ==
    (call # None /\ call[1].res.tag = "Panic") =>
        LET msg == call[1].res.panic[1]
        IN  /\ msg.state_as_str = call[1].self.kind
            /\ msg.action_as_str = call[1].action.kind
            /\ Some(msg.n) = call[1].n
            /\ GoverningEdges(smd, call[1].self, call[1].action) # {}
            /\ \A o \in GoverningEdges(smd, call[1].self, call[1].action) :
                   /\ Range(msg.assert_as_str) = OccTargets(smd, o)
                   /\ msg.n.kind \notin OccTargets(smd, o)

\* C18 witness: the check of an edge with two targets has failed, in a block
\* that has another edge.
C18_Witness ==
    /\ call # None
    /\ call[1].res.tag = "Panic"
    /\ Len(call[1].res.panic[1].assert_as_str) = 2
    /\ \E b \in 1..Len(Blocks(smd)) :
           /\ Blocks(smd)[b].state = call[1].self.kind
           /\ Len(Blocks(smd)[b].transitions) = 2


-----------------------------------------------------------------------------
(* C19 *)

\* The text between the braces of a block has an empty alternative list: a
\* `=>` or a `|` that does not stand between two identifiers.
EmptyAlternativeIn(body) ==
    \E k \in 1..Len(body) :
        /\ body[k] \in {Punct("=>"), Punct("|")}
        /\ \/ k = 1
           \/ k = Len(body)
           \/ body[k - 1].kind # "ident"
           \/ body[k + 1].kind # "ident"

HasEmptyAlternative(item) ==
    \E k \in 1..Len(item) :
        item[k].kind = "group" /\ EmptyAlternativeIn(item[k].stream)

\* The macro has got past parse_macro_input!.
ParsedSuccessfully == pc \notin {"parse", "syntax_error"}

\* C19: every edge of a successfully parsed specification has at least one
\* action and at least one target state; text with an empty action or target
\* alternative list never gets past the parser; and the generator skips no
\* edge for want of targets: every block's arm holds one check per dispatch
\* arm.
C19_EdgesNeverEmpty ==
    /\ ParsedSuccessfully =>
           \A b \in 1..Len(Blocks(smd)) :
               \A e \in 1..Len(Blocks(smd)[b].transitions) :
                   /\ Len(Blocks(smd)[b].transitions[e].actions) >= 1
                   /\ Len(Blocks(smd)[b].transitions[e].next_states) >= 1
    /\ HasEmptyAlternative(input) => ~ ParsedSuccessfully
    /\ fsm_impl # None =>
           \A k \in 1..Len(fsm_impl[1].arms) :
               Len(fsm_impl[1].arms[k].action_to_lambda)
                   = Len(fsm_impl[1].arms[k].action_dispatch)

\* Text whose only edge has an action but nothing after the `=>` has been
\* rejected by the parser.
C19_Witness ==
    /\ pc = "syntax_error"
    /\ input[Len(input)].kind = "group"
    /\ input[Len(input)].stream = <<Ident("A"), Punct("=>")>>
=============================================================================
